---- MODULE Spec2Model ----
(***************************************************************************)
(* Fix lifecycle of the CI/CD Fixer Agent backend (src/main.py driving     *)
(* src/postgres_database.py and src/github_service.py).                    *)
(*                                                                         *)
(* The state is the workflow_runs table, the asyncio tasks scheduled by    *)
(* the webhook / manual trigger, and the one request handler the event     *)
(* loop is running.  No handler of the lifecycle contains a real           *)
(* suspension point (the database and GitHub calls are synchronous), so a  *)
(* handler runs to completion before another handler or task starts; its   *)
(* intermediate positions are modelled because the process can be killed   *)
(* at any of them while the table survives.  The database is taken to be   *)
(* reachable: every statement the handlers issue is executed and committed.*)
(*                                                                         *)
(* The analytics side (src/analytics_engine.py behind the /analytics/ml    *)
(* routes of src/main.py) is followed by more specifications:              *)
(* SpecPatterns, the feedback endpoint over the learned_patterns table     *)
(* (database reachable), SpecPredict, predict_fix_success over tables of   *)
(* decided suggestions, with the database reachable or not, SpecSimilar,   *)
(* find_similar_fixes over tables of suggestions, and SpecMatcher, the     *)
(* signature and the similarity of pairs of logs.  Floats are kept exact,  *)
(* as reduced fractions.                                                   *)
(*                                                                         *)
(* SpecOutage is the feedback endpoint with a database that can fail at    *)
(* the load and at the save of the patterns.                               *)
(*                                                                         *)
(* SpecRequests and SpecFeedbacks put several requests in the server at    *)
(* the same time: the event loop of the one server process starts or       *)
(* resumes a handler only when the running one has answered or reached a   *)
(* suspension point (SuspensionPoints).                                    *)
(***************************************************************************)
EXTENDS Integers, Sequences, FiniteSets, TLC

\* ---------------------------------------------------------------- bounds
MaxRuns == 1
MaxTasks == 1

\* feedback calls the model follows (learn_from_feedback executions)
MaxFeedback == 3

\* rows of workflow_runs a prediction is computed over
MaxCorpus == 2

\* requests the server holds at one time (received, not yet answered)
MaxClients == 2

\* approve, reject and apply requests the model follows
MaxRequests == 3

\* ---------------------------------------------------------------- values
NULL == "NULL"

\* the (owner, repo, run_id) triples that can be delivered
Runs == 1..MaxRuns

\* the fix ids a caller can put in the URL: the ids the table can hold and one
\* that never exists
FixIds == 1..(MaxRuns + 1)

\* the six statuses of the lifecycle (spec 4.5)
SixStatuses ==
    {"pending", "approved", "rejected", "applying", "applied", "application_failed"}

\* text of a fix produced by the analysis (format_suggested_fix / str)
FixText == "fix"

VARIABLES
    workflow_runs,   \* the table: a sequence of rows, the row's id is its index
    tasks,           \* tasks[id]: analyze_failure_async tasks created and not yet run
    cur,             \* the request handler being run by the event loop
    decided,         \* history: decided[id] is TRUE when approve_fix wrote 'approved'
                     \*          since the row last was written 'pending'
    attempt,         \* history: attempt[id] is the result of the latest call of the
                     \*          repository-mutation collaborator since then
    refused          \* history: refused[id] is TRUE once reject_fix wrote 'rejected'
                     \*          on a row that holds a suggestion

\* the analytics side (analytics_engine.py, the /analytics/ml endpoints)
VARIABLES
    learned_patterns, \* the table learned_patterns: a sequence of rows, each row
                      \* the patterns_data JSON document of one save
    fb,               \* the handler of POST /analytics/ml/learn-from-feedback
    feedback,         \* history: feedback[sig] counts the approved/rejected
                      \*          feedback events on signature sig, from the
                      \*          first approved one on
    calls,            \* history: calls of MLPatternRecognizer.learn_from_feedback
    query,            \* the request of POST /analytics/ml/predict-success
    prediction        \* what SuccessPredictor.predict_fix_success returned

\* the matcher (MLPatternRecognizer.extract_error_signature, calculate_similarity,
\* find_similar_fixes behind POST /analytics/ml/similar-fixes)
VARIABLES
    search,           \* the request of POST /analytics/ml/similar-fixes
    matches,          \* what MLPatternRecognizer.find_similar_fixes returned
    pair,             \* two error logs given to the matcher
    compared          \* their signatures and their similarity

\* the event loop of the server process (uvicorn.run in main.py)
VARIABLES
    inflight,         \* inflight[c]: the request of client c the server has
                      \*              received, and the position of its handler
    running,          \* the client whose handler has the event loop, 0 when the
                      \* loop is free to start or resume any handler
    applications,     \* history: applications[id] counts the calls of the
                      \*          repository-mutation collaborator for fix id
    received          \* history: approve, reject and apply requests received

lifecycle_vars == <<workflow_runs, tasks, cur, decided, attempt, refused>>
pattern_vars == <<learned_patterns, fb, feedback, calls>>
predict_vars == <<query, prediction>>
matcher_vars == <<search, matches, pair, compared>>
server_vars == <<inflight, running, applications, received>>

vars == <<lifecycle_vars, pattern_vars, predict_vars, matcher_vars, server_vars>>

\* ------------------------------------------------------------ the table
\* the "owner/repo" of a run (the owner and repo_name columns)
RepoOf(run) == IF run % 2 = 1 THEN "acme/api" ELSE "acme/web"

\* CREATE TABLE workflow_runs: the columns the lifecycle reads and writes.
\* fix_status has DEFAULT 'pending'; the other columns default to NULL.
\* pr_url, fix_branch and fix_error are read by get_fix_status with .get():
\* the table has no such column, so they read as None.
NewRow(run, log) ==
    [run |-> run, repo |-> RepoOf(run), error_log |-> log,
     suggested_fix |-> NULL, fix_status |-> "pending",
     analysis_result |-> NULL, pr_url |-> NULL, fix_branch |-> NULL, fix_error |-> NULL]

RowIds == DOMAIN workflow_runs

\* the id of the row of a run, 0 when there is none (UNIQUE(repo_name, owner, run_id))
IdOfRun(run) ==
    IF \E i \in RowIds : workflow_runs[i].run = run
    THEN CHOOSE i \in RowIds : workflow_runs[i].run = run
    ELSE 0

\* variant: no ON CONFLICT clause, a delivery of a run that has a record
\* inserts another one
store_failure_inserting(run, log) ==
    IF IdOfRun(run) = 0
    THEN [id |-> Len(workflow_runs) + 1, rows |-> Append(workflow_runs, NewRow(run, log))]
    ELSE [id |-> IdOfRun(run), rows |-> Append(workflow_runs, NewRow(run, log))]

\* store_failure: INSERT ... ON CONFLICT (repo_name, owner, run_id) DO UPDATE SET
\* status, conclusion, error_log ... RETURNING id
store_failure(run, log) ==
    IF IdOfRun(run) = 0
    THEN [id |-> Len(workflow_runs) + 1, rows |-> Append(workflow_runs, NewRow(run, log))]
    ELSE [id |-> IdOfRun(run),
          rows |-> [workflow_runs EXCEPT ![IdOfRun(run)].error_log = log]]

\* what get_fix returns when there is no row (None)
NoRow ==
    [run |-> 0, repo |-> NULL, error_log |-> NULL, suggested_fix |-> NULL, fix_status |-> NULL,
     analysis_result |-> NULL, pr_url |-> NULL, fix_branch |-> NULL, fix_error |-> NULL]

\* get_fix: SELECT * FROM workflow_runs WHERE id = %s; None when there is no row
get_fix(id) == IF id \in RowIds THEN workflow_runs[id] ELSE NoRow

\* update_fix_status: UPDATE workflow_runs SET fix_status = %s WHERE id = %s
update_fix_status(rows, id, status) ==
    IF id \in DOMAIN rows THEN [rows EXCEPT ![id].fix_status = status] ELSE rows

\* store_analysis: UPDATE workflow_runs SET analysis_result = %s WHERE id = %s
store_analysis(rows, id, result) ==
    IF id \in DOMAIN rows THEN [rows EXCEPT ![id].analysis_result = result] ELSE rows

\* variant: the UPDATE sets suggested_fix and leaves fix_status as it is
update_workflow_run_fix_keeping_status(rows, id, fix, status) ==
    IF id \in DOMAIN rows
    THEN [rows EXCEPT ![id].suggested_fix = fix]
    ELSE rows

\* update_workflow_run_fix: UPDATE workflow_runs SET suggested_fix = %s,
\* fix_status = %s WHERE id = %s  (whatever the row's current status is)
update_workflow_run_fix(rows, id, fix, status) ==
    IF id \in DOMAIN rows
    THEN [rows EXCEPT ![id].suggested_fix = fix, ![id].fix_status = status]
    ELSE rows

\* db.update_fix_application_result(fix_id, status, pr_url=, branch_name=,
\* error_message=): class PostgreSQLCICDFixerDB defines no such method, so the
\* attribute lookup raises AttributeError and the table is not touched.
update_fix_application_result(rows, id, status, pr, branch, err) ==
    [raised |-> TRUE, rows |-> rows]

\* ------------------------------------------------------- request handlers
\* variant: the guard refuses only a rejected fix
ApproveAllowedLoose == SixStatuses \ {"rejected"}

\* approve_fix and reject_fix go on only when fix["fix_status"] == "pending"
ApproveAllowed == {"pending"}

\* variant: a fix nobody decided on can be applied
ApplyAllowedWithPending == {"approved", "application_failed", "pending"}

\* variant: a fix that is being applied can be applied again
ApplyAllowedWithApplying == {"approved", "application_failed", "applying"}

\* manually_apply_fix goes on only from these statuses
ApplyAllowed == {"approved", "application_failed"}

\* variant: the status is left as it was when the collaborator is called
InProgressStatusKept == "approved"

\* the status apply_fix_to_repository stores before it calls the collaborator
InProgressStatus == "applying"

\* variant: the fix_status argument is left out and update_workflow_run_fix
\* takes its default
AnalysisFixStatusDefault == "suggested"

\* the status analyze_failure_async passes to update_workflow_run_fix
AnalysisFixStatus == "pending"

\* what GitHubService.apply_fix_to_repository can return: a dict with the pull
\* request ("pr"), a dict whose pull_request is None because create_pull_request
\* failed ("nopr"), or None (branch creation failed or any exception: "failed")
GhResults == {"pr", "nopr", "failed"}

\* no handler is running
Idle ==
    [op |-> "none", id |-> 0, pc |-> "idle", fix |-> NoRow, gh |-> "notcalled",
     code |-> 0, at |-> "none", att |-> "none"]

\* the handler of request op on fix id, after fix = db.get_fix(fix_id)
Started(op, id) ==
    [op |-> op, id |-> id, pc |-> "start", fix |-> get_fix(id), gh |-> "notcalled",
     code |-> 0, at |-> "none",
     att |-> IF id \in RowIds THEN attempt[id] ELSE "none"]

\* the handler returns (or raises HTTPException) with this status code
Respond(h, code) == [h EXCEPT !.pc = "done", !.code = code]

\* ------------------------------------------------------- analytics values
\* the error logs a caller can send: the first two hold none of the words
\* "error", "failed", "exception", the third holds "failed"
ErrorTexts ==
    {"npm ERR! peer dep missing: react@^18.0.0",
     "Build timed out after 30 minutes",
     "npm install failed: peer dependency conflict"}

\* MLPatternRecognizer.extract_error_signature: "" for an empty log, else the
\* first 16 hex digits of the md5 of the cleaned fragments joined by " | ".
\* A log without a fragment hashes the empty string.
extract_error_signature(error_log) ==
    CASE error_log = "" -> ""
      [] error_log = "npm ERR! peer dep missing: react@^18.0.0" -> "d41d8cd98f00b204"
      [] error_log = "Build timed out after 30 minutes" -> "d41d8cd98f00b204"
      [] error_log = "npm install failed: peer dependency conflict" -> "429d1a54ae118629"
      [] error_log = "npm install failed: peer dep missing" -> "cb6edddd2879d307"
      [] error_log = "Error: cannot execute binary /usr/local/bin/node" -> "3cfaeb26e0182fa4"
      [] error_log = "Error: cannot execute binary /opt/tools/bin/node" -> "a7eb0e920f783642"
      [] error_log = "TypeError: cannot read config at /home/alice/app/src/main.py"
            -> "eae22c4594e3d733"
      [] error_log = "TypeError: cannot read config at /srv/build/main.py"
            -> "eae22c4594e3d733"
      [] error_log = "SyntaxError: unexpected token in module on line 12"
            -> "03eb7c46009f6abc"
      [] error_log = "SyntaxError: unexpected token in module on line 345"
            -> "03eb7c46009f6abc"
      [] error_log = "Error: connection refused by host at 2024-01-15 10:30:00"
            -> "5739fa2fd75b5fd7"
      [] error_log = "Error: connection refused by host at 2025-06-02 23:59:59"
            -> "5739fa2fd75b5fd7"

Signatures == {extract_error_signature(t) : t \in ErrorTexts}

\* the fix texts and the repository contexts a caller can send
SuggestedFixes == {"npm install react@18", "npm install --legacy-peer-deps"}
RepoContexts == {RepoOf(1), RepoOf(2)}

\* no feedback request is being handled
FbIdle ==
    [pc |-> "idle", error_log |-> "", suggested_fix |-> "", fix_status |-> "",
     repo_context |-> "", loaded |-> <<>>, patterns |-> <<>>, stored |-> <<>>,
     saved |-> FALSE, code |-> 0]

\* no row in learned_patterns (load_learned_patterns finds nothing, or the
\* table does not exist yet and the SELECT fails: the list is empty either way)
PatternStoreInit ==
    /\ learned_patterns = <<>>
    /\ fb = FbIdle
    /\ feedback = [sig \in Signatures |-> [approved |-> 0, total |-> 0]]
    /\ calls = 0

\* no prediction request
NoQuery == [error_log |-> "", suggested_fix |-> "", repo_context |-> "", db |-> "up"]
NoPrediction == [pc |-> "idle"]
PredictIdle ==
    /\ query = NoQuery
    /\ prediction = NoPrediction

\* no similar-fixes request, and nothing given to the matcher
NoSearch ==
    [error_log |-> "", repo_context |-> "", min_similarity |-> <<0, 1>>, db |-> "up"]
NoMatches == [pc |-> "idle"]
NoPair == <<"", "">>
NotCompared == [pc |-> "idle"]
MatcherIdle ==
    /\ search = NoSearch
    /\ matches = NoMatches
    /\ pair = NoPair
    /\ compared = NotCompared

\* the clients whose requests the server can hold at one time
Clients == 1..MaxClients

\* the server holds no request of a client
NoRequest == [op |-> "none", pc |-> "none"]

\* no request has been received, the event loop is free
ServerIdle ==
    /\ inflight = [c \in Clients |-> NoRequest]
    /\ running = 0
    /\ applications = [i \in FixIds |-> 0]
    /\ received = 0

\* no handler runs, no task is scheduled
HandlersInit ==
    /\ tasks = [i \in 1..MaxRuns |-> 0]
    /\ cur = Idle
    /\ decided = [i \in 1..MaxRuns |-> FALSE]
    /\ attempt = [i \in 1..MaxRuns |-> "none"]
    /\ refused = [i \in 1..MaxRuns |-> FALSE]

LifecycleInit ==
    /\ workflow_runs = <<>>
    /\ HandlersInit

Init ==
    /\ LifecycleInit
    /\ PatternStoreInit
    /\ PredictIdle
    /\ MatcherIdle
    /\ ServerIdle

\* the common part of handle_webhook and trigger_analysis: store the failure,
\* asyncio.create_task(analyze_failure_async(..., failure_id)), answer
StoreAndSchedule(run, log) ==
    /\ LET r == store_failure(run, log) IN
        /\ tasks[r.id] < MaxTasks
        /\ workflow_runs' = r.rows
        /\ tasks' = [tasks EXCEPT ![r.id] = @ + 1]
    /\ UNCHANGED <<cur, decided, attempt, refused>>
    /\ UNCHANGED <<pattern_vars, predict_vars, matcher_vars, server_vars>>

\* POST /webhook with action completed and conclusion failure
handle_webhook(run) ==
    /\ cur.pc = "idle"
    /\ StoreAndSchedule(run, "webhook")

\* POST /analyze
trigger_analysis(run) ==
    /\ cur.pc = "idle"
    /\ StoreAndSchedule(run, "manual")

\* the task analyze_failure_async(owner, repo, run_id, failure_id) runs.
\* result: gemini_agent.analyze_failure returned None or raised ("none"),
\* returned an analysis without suggested_fix ("nofix") or with one ("fix")
analyze_failure_async(id, result) ==
    /\ cur.pc = "idle"
    /\ tasks[id] > 0
    /\ tasks' = [tasks EXCEPT ![id] = @ - 1]
    /\ workflow_runs' =
          CASE result = "none" -> workflow_runs
            [] result = "nofix" -> store_analysis(workflow_runs, id, "analysis")
            [] result = "fix" ->
                 update_workflow_run_fix(store_analysis(workflow_runs, id, "analysis"),
                                         id, FixText, AnalysisFixStatus)
    /\ decided' = IF result = "fix" THEN [decided EXCEPT ![id] = FALSE] ELSE decided
    /\ attempt' = IF result = "fix" THEN [attempt EXCEPT ![id] = "none"] ELSE attempt
    /\ UNCHANGED <<cur, refused>>
    /\ UNCHANGED <<pattern_vars, predict_vars, matcher_vars, server_vars>>

\* variant: the application is handed to a background task and the handler
\* answers at once
AfterApprovalRespond(h) == Respond(h, 200)

\* approve_fix after it stored 'approved': it goes on into
\* await apply_fix_to_repository(fix_id, fix) and answers when that returned
\* or raised
AfterApproval(h) == [h EXCEPT !.pc = "approved"]

\* POST /fixes/{fix_id}/approve up to db.update_fix_status(fix_id, "approved")
approve_fix(id) ==
    /\ cur.pc = "idle"
    /\ LET h == Started("approve", id) IN
        IF id \notin RowIds
        THEN /\ cur' = Respond(h, 404)
             /\ UNCHANGED <<workflow_runs, decided>>
        ELSE IF h.fix.fix_status \notin ApproveAllowed
        THEN /\ cur' = Respond(h, 400)
             /\ UNCHANGED <<workflow_runs, decided>>
        ELSE /\ workflow_runs' = update_fix_status(workflow_runs, id, "approved")
             /\ decided' = [decided EXCEPT ![id] = TRUE]
             /\ cur' = AfterApproval(h)
    /\ UNCHANGED <<tasks, attempt, refused>>
    /\ UNCHANGED <<pattern_vars, predict_vars, matcher_vars, server_vars>>

\* POST /fixes/{fix_id}/reject
reject_fix(id) ==
    /\ cur.pc = "idle"
    /\ LET h == Started("reject", id) IN
        IF id \notin RowIds
        THEN /\ cur' = Respond(h, 404)
             /\ UNCHANGED <<workflow_runs, refused>>
        ELSE IF h.fix.fix_status \notin ApproveAllowed
        THEN /\ cur' = Respond(h, 400)
             /\ UNCHANGED <<workflow_runs, refused>>
        ELSE /\ workflow_runs' = update_fix_status(workflow_runs, id, "rejected")
             /\ refused' = [refused EXCEPT ![id] = @ \/ h.fix.suggested_fix # NULL]
             /\ cur' = Respond(h, 200)
    /\ UNCHANGED <<tasks, decided, attempt>>
    /\ UNCHANGED <<pattern_vars, predict_vars, matcher_vars, server_vars>>

\* apply_fix_to_repository up to db.update_fix_status(fix_id, "applying")
MarkInProgress(h) ==
    /\ workflow_runs' = update_fix_status(workflow_runs, h.id, InProgressStatus)
    /\ cur' = [h EXCEPT !.pc = "mutating"]

\* approve_fix goes on: await apply_fix_to_repository(fix_id, fix)
approve_apply ==
    /\ cur.pc = "approved"
    /\ MarkInProgress(cur)
    /\ UNCHANGED <<tasks, decided, attempt, refused>>
    /\ UNCHANGED <<pattern_vars, predict_vars, matcher_vars, server_vars>>

\* POST /fixes/{fix_id}/apply up to db.update_fix_status(fix_id, "applying")
manually_apply_fix(id) ==
    /\ cur.pc = "idle"
    /\ LET h == Started("apply", id) IN
        IF id \notin RowIds
        THEN /\ cur' = Respond(h, 404)
             /\ UNCHANGED workflow_runs
        ELSE IF h.fix.fix_status \notin ApplyAllowed
        THEN /\ cur' = Respond(h, 400)
             /\ UNCHANGED workflow_runs
        ELSE MarkInProgress(h)
    /\ UNCHANGED <<tasks, decided, attempt, refused>>
    /\ UNCHANGED <<pattern_vars, predict_vars, matcher_vars, server_vars>>

\* application_result = github_service.apply_fix_to_repository(owner, repo,
\* suggested_fix, fix_id): the call of the repository-mutation collaborator
github_apply(result) ==
    /\ cur.pc = "mutating"
    /\ cur' = [cur EXCEPT !.pc = "settle", !.gh = result]
    /\ UNCHANGED <<workflow_runs, tasks, decided, attempt, refused>>
    /\ UNCHANGED <<pattern_vars, predict_vars, matcher_vars, server_vars>>

\* the rest of apply_fix_to_repository and of its caller:
\*   "pr":     update_fix_application_result(fix_id, "applied", pr_url, branch_name)
\*   "nopr":   application_result.get("pull_request", {}).get("html_url") raises
\*             AttributeError on None, the except clause takes over
\*   "failed": update_fix_application_result(fix_id, "application_failed", ...)
\*   except Exception: update_fix_application_result(fix_id, "application_failed",
\*             error_message=str(e)); raise
\* approve_fix catches what apply_fix_to_repository raises and calls
\* update_fix_application_result(fix_id, "approved_application_failed", ...);
\* what that raises becomes HTTPException(500).  manually_apply_fix turns what
\* apply_fix_to_repository raises into HTTPException(500).
Settled(op, gh, rows, id) ==
    LET first ==
          CASE gh = "pr" ->
                 update_fix_application_result(rows, id, "applied",
                                               "pr_url", "branch", NULL)
            [] gh = "nopr" -> [raised |-> TRUE, rows |-> rows]
            [] gh = "failed" ->
                 update_fix_application_result(rows, id, "application_failed",
                                               NULL, NULL, "Failed to create PR or apply changes")
        handler ==
          IF first.raised
          THEN update_fix_application_result(first.rows, id, "application_failed",
                                             NULL, NULL, "str(e)")
          ELSE first
        raised == first.raised
    IN IF raised /\ op = "approve"
       THEN update_fix_application_result(handler.rows, id,
                                          "approved_application_failed",
                                          NULL, NULL, "str(e)")
       ELSE [raised |-> raised, rows |-> handler.rows]

\* the handler that called the collaborator goes through the rest and answers
settle ==
    /\ cur.pc = "settle"
    /\ LET outer == Settled(cur.op, cur.gh, workflow_runs, cur.id) IN
        /\ workflow_runs' = outer.rows
        /\ cur' = Respond(cur, IF outer.raised THEN 500 ELSE 200)
        /\ attempt' = [attempt EXCEPT ![cur.id] = cur.gh]
    /\ UNCHANGED <<tasks, decided, refused>>
    /\ UNCHANGED <<pattern_vars, predict_vars, matcher_vars, server_vars>>

\* the response has been sent; the event loop takes the next request or task
return ==
    /\ cur.pc = "done"
    /\ cur' = Idle
    /\ UNCHANGED <<workflow_runs, tasks, decided, attempt, refused>>
    /\ UNCHANGED <<pattern_vars, predict_vars, matcher_vars, server_vars>>

\* the process is killed while a handler runs: the handler and the scheduled
\* tasks are gone, the table is what the committed updates made it
crash ==
    /\ cur.pc \in {"approved", "mutating", "settle"}
    /\ cur' = [cur EXCEPT !.pc = "crashed", !.at = cur.pc]
    /\ tasks' = [i \in 1..MaxRuns |-> 0]
    /\ UNCHANGED <<workflow_runs, decided, attempt, refused>>
    /\ UNCHANGED <<pattern_vars, predict_vars, matcher_vars, server_vars>>

\* the process is started again
restart ==
    /\ cur.pc = "crashed"
    /\ cur' = Idle
    /\ UNCHANGED <<workflow_runs, tasks, decided, attempt, refused>>
    /\ UNCHANGED <<pattern_vars, predict_vars, matcher_vars, server_vars>>

Next ==
    \/ \E run \in Runs : handle_webhook(run)
    \/ \E run \in Runs : trigger_analysis(run)
    \/ \E id \in RowIds, result \in {"none", "nofix", "fix"} : analyze_failure_async(id, result)
    \/ \E id \in FixIds : approve_fix(id)
    \/ \E id \in FixIds : reject_fix(id)
    \/ \E id \in FixIds : manually_apply_fix(id)
    \/ approve_apply
    \/ \E result \in GhResults : github_apply(result)
    \/ settle
    \/ return
    \/ crash
    \/ restart

Spec == Init /\ [][Next]_vars

\* ------------------------------------------------------- the PatternStore
\* a success rate is a float; the model keeps it exact, as a reduced fraction
\* <<numerator, denominator>>
RECURSIVE GCD(_, _)
GCD(a, b) == IF b = 0 THEN a ELSE GCD(b, a % b)

Fraction(n, d) == <<n \div GCD(n, d), d \div GCD(n, d)>>

\* variant: a rejection leaves the rate as it was
UpdatedRateIgnoringRejections(rate, n, outcome) ==
    IF outcome = 1 THEN Fraction(rate[1] * (n - 1) + rate[2], rate[2] * n) ELSE rate

\* learn_from_feedback, the update of success_rate after usage_count became n:
\* (success_rate * (n - 1) + 1.0) / n when approved (outcome 1),
\* (success_rate * (n - 1) + 0.0) / n when rejected (outcome 0)
UpdatedRate(rate, n, outcome) ==
    Fraction(rate[1] * (n - 1) + outcome * rate[2], rate[2] * n)

\* FixPattern(error_signature, fix_template, success_rate=1.0, usage_count=1,
\* repo_contexts={repo_context}, last_updated=now); last_updated, a clock
\* reading nothing else reads, is left out
NewPattern(sig, fix, repo) ==
    [error_signature |-> sig, fix_template |-> fix, success_rate |-> <<1, 1>>,
     usage_count |-> 1, repo_contexts |-> {repo}]

\* variant: the list is not searched
ExistingPatternNotSearched(patterns, sig) == 0

\* the first pattern of the list with this signature, 0 when there is none
\* (for pattern in self.learned_patterns: if ... == error_signature: break)
ExistingPattern(patterns, sig) ==
    IF \E i \in DOMAIN patterns : patterns[i].error_signature = sig
    THEN CHOOSE i \in DOMAIN patterns :
            /\ patterns[i].error_signature = sig
            /\ \A j \in 1..(i - 1) : patterns[j].error_signature # sig
    ELSE 0

\* variant: a 'pending' event is learned from like a rejection
LearnedStatusesWithPending == {"approved", "rejected", "pending"}

\* learn_from_feedback returns at once unless fix_status is one of these
LearnedStatuses == {"approved", "rejected"}

\* variant: any learned event on a signature never seen creates a pattern
CreatesPatternAlways(fix_status) == TRUE

\* a signature never seen gets a pattern only when fix_status == "approved"
CreatesPattern(fix_status) == fix_status = "approved"

\* MLPatternRecognizer.learn_from_feedback on the in-memory list: the list it
\* leaves and whether it went on to save_learned_patterns
learn_from_feedback(patterns, error_log, suggested_fix, fix_status, repo_context) ==
    IF fix_status \notin LearnedStatuses
    THEN [patterns |-> patterns, save |-> FALSE]
    ELSE LET sig == extract_error_signature(error_log)
             i == ExistingPattern(patterns, sig)
             n == patterns[i].usage_count + 1
         IN [patterns |->
               IF i # 0
               THEN [patterns EXCEPT
                       ![i].usage_count = n,
                       ![i].repo_contexts = @ \cup {repo_context},
                       ![i].success_rate =
                           UpdatedRate(@, n, IF fix_status = "approved" THEN 1 ELSE 0)]
               ELSE IF CreatesPattern(fix_status)
               THEN Append(patterns, NewPattern(sig, suggested_fix, repo_context))
               ELSE patterns,
             save |-> TRUE]

\* list(pattern.repo_contexts): the elements of the set in some order
RECURSIVE SetToList(_)
SetToList(S) ==
    IF S = {} THEN <<>>
    ELSE LET x == CHOOSE y \in S : TRUE IN <<x>> \o SetToList(S \ {x})

\* variant: the repository contexts are not written
PatternToJsonWithoutContexts(p) ==
    [error_signature |-> p.error_signature, fix_template |-> p.fix_template,
     success_rate |-> p.success_rate, usage_count |-> p.usage_count,
     repo_contexts |-> <<>>]

\* save_learned_patterns, one element of patterns_data: repo_contexts becomes a
\* JSON list (last_updated, an ISO string, is left out with the field)
PatternToJson(p) ==
    [error_signature |-> p.error_signature, fix_template |-> p.fix_template,
     success_rate |-> p.success_rate, usage_count |-> p.usage_count,
     repo_contexts |-> SetToList(p.repo_contexts)]

\* load_learned_patterns, one FixPattern: repo_contexts=set(p["repo_contexts"])
PatternFromJson(j) ==
    [error_signature |-> j.error_signature, fix_template |-> j.fix_template,
     success_rate |-> j.success_rate, usage_count |-> j.usage_count,
     repo_contexts |-> {j.repo_contexts[k] : k \in DOMAIN j.repo_contexts}]

\* save_learned_patterns: DELETE FROM learned_patterns, then INSERT one row
\* holding the whole list
save_learned_patterns(patterns) ==
    << [k \in DOMAIN patterns |-> PatternToJson(patterns[k])] >>

\* load_learned_patterns: SELECT patterns_data ... ORDER BY updated_at DESC
\* LIMIT 1; the list stays [] when there is no row
load_learned_patterns(table) ==
    IF table = <<>> THEN <<>>
    ELSE LET doc == table[Len(table)] IN [k \in DOMAIN doc |-> PatternFromJson(doc[k])]

\* the values of fix_status a caller can send ('applied' is not accepted)
FeedbackStatuses == {"approved", "rejected", "pending", "applied"}

\* POST /analytics/ml/learn-from-feedback up to recognizer = MLPatternRecognizer():
\* a missing field or a fix_status outside approved/rejected/pending raises
\* HTTPException(400), which the handler's own except Exception turns into 500;
\* otherwise the constructor loads the stored patterns
learn_from_feedback_request(error_log, suggested_fix, fix_status, repo_context) ==
    /\ fb.pc = "idle"
    /\ calls < MaxFeedback
    /\ LET h == [FbIdle EXCEPT !.error_log = error_log, !.suggested_fix = suggested_fix,
                               !.fix_status = fix_status, !.repo_context = repo_context,
                               !.stored = learned_patterns]
       IN IF \/ error_log = "" \/ suggested_fix = "" \/ fix_status = ""
             \/ fix_status \notin {"approved", "rejected", "pending"}
          THEN fb' = [h EXCEPT !.pc = "done", !.code = 500]
          ELSE fb' = [h EXCEPT !.pc = "loaded",
                               !.loaded = load_learned_patterns(learned_patterns),
                               !.patterns = load_learned_patterns(learned_patterns)]
    /\ UNCHANGED <<learned_patterns, feedback, calls>>
    /\ UNCHANGED <<lifecycle_vars, predict_vars, matcher_vars, server_vars>>

\* the history of the events on a signature: counted from the first approved one
Counted(count, fix_status) ==
    IF fix_status = "approved" \/ (fix_status = "rejected" /\ count.total > 0)
    THEN [approved |-> count.approved + (IF fix_status = "approved" THEN 1 ELSE 0),
          total |-> count.total + 1]
    ELSE count

\* recognizer.learn_from_feedback(error_log, suggested_fix, fix_status,
\* repo_context), save_learned_patterns included, and the 200 response
recognizer_learn ==
    /\ fb.pc = "loaded"
    /\ LET r == learn_from_feedback(fb.patterns, fb.error_log, fb.suggested_fix,
                                    fb.fix_status, fb.repo_context)
           sig == extract_error_signature(fb.error_log)
       IN /\ fb' = [fb EXCEPT !.pc = "done", !.code = 200,
                              !.patterns = r.patterns, !.saved = r.save]
          /\ learned_patterns' =
                IF r.save THEN save_learned_patterns(r.patterns) ELSE learned_patterns
          /\ feedback' = [feedback EXCEPT ![sig] = Counted(@, fb.fix_status)]
    /\ calls' = calls + 1
    /\ UNCHANGED <<lifecycle_vars, predict_vars, matcher_vars, server_vars>>

\* the response has been sent
feedback_return ==
    /\ fb.pc = "done"
    /\ fb' = FbIdle
    /\ UNCHANGED <<learned_patterns, feedback, calls>>
    /\ UNCHANGED <<lifecycle_vars, predict_vars, matcher_vars, server_vars>>

NextPatterns ==
    \/ \E error_log \in ErrorTexts \cup {""}, suggested_fix \in SuggestedFixes,
          fix_status \in FeedbackStatuses, repo_context \in RepoContexts :
            learn_from_feedback_request(error_log, suggested_fix, fix_status, repo_context)
    \/ recognizer_learn
    \/ feedback_return

SpecPatterns == Init /\ [][NextPatterns]_vars


\* ---------------------------------------------------- the SuccessPredictor
\* floats are kept exact, as reduced fractions <<numerator, denominator>>
RAdd(a, b) == Fraction(a[1] * b[2] + b[1] * a[2], a[2] * b[2])
RSub(a, b) == Fraction(a[1] * b[2] - b[1] * a[2], a[2] * b[2])
RMul(a, b) == Fraction(a[1] * b[1], a[2] * b[2])
RLeq(a, b) == a[1] * b[2] <= b[1] * a[2]
RMin(a, b) == IF RLeq(a, b) THEN a ELSE b

\* an error_log that is not a string (a JSON number in the request body)
NotAString == "<number 404>"

\* set(re.findall(r'\w+', log.lower())) for the model's error logs
Words(log) ==
    CASE log = "" -> {}
      [] log = "npm ERR! peer dep missing: react@^18.0.0" ->
            {"npm", "err", "peer", "dep", "missing", "react", "18", "0"}
      [] log = "Build timed out after 30 minutes" ->
            {"build", "timed", "out", "after", "30", "minutes"}
      [] log = "npm install failed: peer dependency conflict" ->
            {"npm", "install", "failed", "peer", "dependency", "conflict"}
      [] log = "npm install failed: peer dep missing" ->
            {"npm", "install", "failed", "peer", "dep", "missing"}
      [] log = "Error: cannot execute binary /usr/local/bin/node" ->
            {"error", "cannot", "execute", "binary", "usr", "local", "bin", "node"}
      [] log = "Error: cannot execute binary /opt/tools/bin/node" ->
            {"error", "cannot", "execute", "binary", "opt", "tools", "bin", "node"}
      [] log = "TypeError: cannot read config at /home/alice/app/src/main.py" ->
            {"typeerror", "cannot", "read", "config", "at", "home", "alice", "app",
             "src", "main", "py"}
      [] log = "TypeError: cannot read config at /srv/build/main.py" ->
            {"typeerror", "cannot", "read", "config", "at", "srv", "build", "main", "py"}
      [] log = "SyntaxError: unexpected token in module on line 12" ->
            {"syntaxerror", "unexpected", "token", "in", "module", "on", "line", "12"}
      [] log = "SyntaxError: unexpected token in module on line 345" ->
            {"syntaxerror", "unexpected", "token", "in", "module", "on", "line", "345"}
      [] log = "Error: connection refused by host at 2024-01-15 10:30:00" ->
            {"error", "connection", "refused", "by", "host", "at", "2024", "01", "15",
             "10", "30", "00"}
      [] log = "Error: connection refused by host at 2025-06-02 23:59:59" ->
            {"error", "connection", "refused", "by", "host", "at", "2025", "06", "02",
             "23", "59"}

\* variant: equal signatures are not taken as a match, the words decide
calculate_similarity_words_only(sig1, sig2, log1, log2) ==
    IF Words(log1) = {} /\ Words(log2) = {} THEN <<0, 1>>
    ELSE Fraction(Cardinality(Words(log1) \cap Words(log2)),
                  Cardinality(Words(log1) \cup Words(log2)))

\* MLPatternRecognizer.calculate_similarity
calculate_similarity(sig1, sig2, log1, log2) ==
    IF sig1 = sig2 THEN <<1, 1>>
    ELSE IF Words(log1) = {} /\ Words(log2) = {} THEN <<0, 1>>
    ELSE Fraction(Cardinality(Words(log1) \cap Words(log2)),
                  Cardinality(Words(log1) \cup Words(log2)))

\* LIMIT 500 of the query of find_similar_fixes
HistoryLimit == 500

\* similar_fixes[:10]
TopMatches == 10

\* the first n elements of a sequence (seq[:n])
Take(seq, n) == SubSeq(seq, 1, IF Len(seq) < n THEN Len(seq) ELSE n)

\* variant: the query does not look at fix_status
RECURSIVE ApprovedDescAnyStatus(_, _)
ApprovedDescAnyStatus(rows, i) ==
    IF i = 0 THEN <<>>
    ELSE (IF rows[i].suggested_fix # NULL /\ rows[i].error_log # NULL
          THEN <<rows[i]>> ELSE <<>>) \o ApprovedDescAnyStatus(rows, i - 1)

\* the rows from index i down that the query of find_similar_fixes selects:
\* suggested_fix IS NOT NULL AND fix_status = 'approved' AND error_log IS NOT
\* NULL ORDER BY created_at DESC
RECURSIVE ApprovedDesc(_, _)
ApprovedDesc(rows, i) ==
    IF i = 0 THEN <<>>
    ELSE (IF /\ rows[i].suggested_fix # NULL
             /\ rows[i].fix_status = "approved"
             /\ rows[i].error_log # NULL
          THEN <<rows[i]>> ELSE <<>>) \o ApprovedDesc(rows, i - 1)

\* variant: the bonus is added first and the threshold is applied to the
\* adjusted score
RECURSIVE ScoredFixesAfterBonus(_, _, _, _)
ScoredFixesAfterBonus(hist, error_log, repo_context, min_similarity) ==
    IF hist = <<>> THEN <<>>
    ELSE LET row == Head(hist)
             similarity ==
                 calculate_similarity(extract_error_signature(error_log),
                                      extract_error_signature(row.error_log),
                                      error_log, row.error_log)
             bonus == IF row.repo = repo_context THEN <<1, 5>> ELSE <<0, 1>>
             adjusted == RMin(<<1, 1>>, RAdd(similarity, bonus))
         IN (IF RLeq(min_similarity, adjusted)
             THEN << [similarity_score |-> adjusted,
                      historical_fix |-> row.suggested_fix,
                      repository |-> row.repo,
                      error_pattern |-> row.error_log] >>
             ELSE <<>>)
            \o ScoredFixesAfterBonus(Tail(hist), error_log, repo_context, min_similarity)

\* the loop of find_similar_fixes over historical_fixes: a row is kept when
\* its similarity reaches min_similarity, and is scored
\* min(1.0, similarity + 0.2) when it is of the repository asked about
RECURSIVE ScoredFixes(_, _, _, _)
ScoredFixes(hist, error_log, repo_context, min_similarity) ==
    IF hist = <<>> THEN <<>>
    ELSE LET row == Head(hist)
             similarity ==
                 calculate_similarity(extract_error_signature(error_log),
                                      extract_error_signature(row.error_log),
                                      error_log, row.error_log)
             bonus == IF row.repo = repo_context THEN <<1, 5>> ELSE <<0, 1>>
         IN (IF RLeq(min_similarity, similarity)
             THEN << [similarity_score |-> RMin(<<1, 1>>, RAdd(similarity, bonus)),
                      historical_fix |-> row.suggested_fix,
                      repository |-> row.repo,
                      error_pattern |-> row.error_log] >>
             ELSE <<>>)
            \o ScoredFixes(Tail(hist), error_log, repo_context, min_similarity)

\* similar_fixes.sort(key=similarity_score, reverse=True): a stable sort
RECURSIVE InsertByScore(_, _)
InsertByScore(sorted, x) ==
    IF sorted = <<>> THEN <<x>>
    ELSE IF RLeq(x.similarity_score, Head(sorted).similarity_score)
    THEN <<Head(sorted)>> \o InsertByScore(Tail(sorted), x)
    ELSE <<x>> \o sorted

RECURSIVE SortByScore(_)
SortByScore(fixes) ==
    IF fixes = <<>> THEN <<>>
    ELSE InsertByScore(SortByScore(SubSeq(fixes, 1, Len(fixes) - 1)), fixes[Len(fixes)])

\* variant: the matches are returned as the loop found them, all of them
find_similar_fixes_unranked(rows, error_log, repo_context, min_similarity, db) ==
    IF db = "down" THEN <<>>
    ELSE ScoredFixes(Take(ApprovedDesc(rows, Len(rows)), HistoryLimit),
                     error_log, repo_context, min_similarity)

\* MLPatternRecognizer.find_similar_fixes for an error_log that is a string;
\* a failing database call is caught inside and gives []
find_similar_fixes(rows, error_log, repo_context, min_similarity, db) ==
    IF db = "down" THEN <<>>
    ELSE Take(SortByScore(ScoredFixes(Take(ApprovedDesc(rows, Len(rows)), HistoryLimit),
                                      error_log, repo_context, min_similarity)),
              TopMatches)

\* variant: a repository without decided suggestions gets the rate 0
get_repo_success_rate_without_default(rows, repo_context, db) ==
    IF db = "down" THEN <<1, 2>>
    ELSE LET judged == {i \in DOMAIN rows :
                          /\ rows[i].repo = repo_context
                          /\ rows[i].suggested_fix # NULL
                          /\ rows[i].fix_status \in {"approved", "rejected"}}
             approved == {i \in judged : rows[i].fix_status = "approved"}
         IN IF judged # {}
            THEN Fraction(Cardinality(approved), Cardinality(judged))
            ELSE <<0, 1>>

\* SuccessPredictor._get_repo_success_rate: approved / total over the rows of
\* the repository with a suggestion and status approved or rejected; 0.5 when
\* there is none, and 0.5 when the database call fails (caught inside)
get_repo_success_rate(rows, repo_context, db) ==
    IF db = "down" THEN <<1, 2>>
    ELSE LET judged == {i \in DOMAIN rows :
                          /\ rows[i].repo = repo_context
                          /\ rows[i].suggested_fix # NULL
                          /\ rows[i].fix_status \in {"approved", "rejected"}}
             approved == {i \in judged : rows[i].fix_status = "approved"}
         IN IF judged # {}
            THEN Fraction(Cardinality(approved), Cardinality(judged))
            ELSE <<1, 2>>

\* a fix of sixty lines, each "file: config.json delete old; npm install x"
LargeFix == "<60 lines: file: config.json delete old; npm install x>"

\* the fix texts a prediction is asked for
PredictedFixes == {"npm install react@18", LargeFix, ""}

\* what _assess_fix_complexity counts in a fix text: lines, "file:", "delete",
\* configuration file extensions, install/upgrade/add dependency
FixFeatures(fix_text) ==
    CASE fix_text = "npm install react@18" ->
            [lines |-> 1, files |-> 0, deletes |-> 0, configs |-> 0, deps |-> 1]
      [] fix_text = LargeFix ->
            [lines |-> 60, files |-> 60, deletes |-> 60, configs |-> 60, deps |-> 60]

\* variant: neither the indicators nor their sum are capped at 1.0
assess_fix_complexity_uncapped(fix_text) ==
    IF fix_text = "" THEN <<1, 1>>
    ELSE LET f == FixFeatures(fix_text)
         IN RAdd(RMul(Fraction(f.lines, 50), <<3, 10>>),
            RAdd(RMul(Fraction(f.files, 10), <<1, 5>>),
            RAdd(RMul(Fraction(f.deletes, 5), <<3, 20>>),
            RAdd(RMul(Fraction(f.configs, 5), <<1, 5>>),
                 RMul(Fraction(f.deps, 3), <<3, 20>>)))))

\* SuccessPredictor._assess_fix_complexity: 1.0 for an empty text, else
\* min(1.0, sum of min(1.0, indicator) * weight)
assess_fix_complexity(fix_text) ==
    IF fix_text = "" THEN <<1, 1>>
    ELSE LET f == FixFeatures(fix_text)
             Capped(x) == RMin(<<1, 1>>, x)
         IN Capped(RAdd(RMul(Capped(Fraction(f.lines, 50)), <<3, 10>>),
                   RAdd(RMul(Capped(Fraction(f.files, 10)), <<1, 5>>),
                   RAdd(RMul(Capped(Fraction(f.deletes, 5)), <<3, 20>>),
                   RAdd(RMul(Capped(Fraction(f.configs, 5)), <<1, 5>>),
                        RMul(Capped(Fraction(f.deps, 3)), <<3, 20>>))))))

\* CICDPatternAnalyzer._classify_error_types for the model's error logs
classify_error_types(error_log) ==
    CASE error_log = "" -> <<>>
      [] error_log = "npm ERR! peer dep missing: react@^18.0.0" -> <<>>
      [] error_log = "Build timed out after 30 minutes" -> <<>>
      [] error_log = "npm install failed: peer dependency conflict" -> <<"dependency_error">>
      [] error_log = "npm install failed: peer dep missing" -> <<"dependency_error">>

\* the dict type_reliability, with its .get default
type_reliability(type) ==
    CASE type = "dependency_error" -> <<4, 5>>
      [] type = "linting_error" -> <<9, 10>>
      [] type = "test_failure" -> <<7, 10>>
      [] type = "build_failure" -> <<3, 5>>
      [] type = "docker_error" -> <<1, 2>>
      [] type = "execution_timeout" -> <<2, 5>>
      [] type = "deployment_error" -> <<1, 2>>
      [] OTHER -> <<1, 2>>

\* SuccessPredictor._get_error_type_reliability
get_error_type_reliability(error_log) ==
    IF classify_error_types(error_log) = <<>> THEN <<1, 2>>
    ELSE type_reliability(classify_error_types(error_log)[1])

RECURSIVE SumScores(_)
SumScores(fixes) ==
    IF fixes = <<>> THEN <<0, 1>>
    ELSE RAdd(Head(fixes).similarity_score, SumScores(Tail(fixes)))

\* similar_fixes[:5], the matches the similarity factor averages
AveragedMatches == 5

\* what the except clause of predict_fix_success returns
PredictionFallback ==
    [predicted_success_rate |-> <<1, 2>>, confidence |-> <<1, 10>>, error |-> TRUE]

\* SuccessPredictor.predict_fix_success.  An error_log that is not a string
\* makes extract_error_signature (called by find_similar_fixes before its
\* try) raise AttributeError, which the except clause turns into the fallback
predict_fix_success(rows, error_log, suggested_fix, repo_context, db) ==
    IF error_log = NotAString THEN PredictionFallback
    ELSE LET similar_fixes ==
                 find_similar_fixes(rows, error_log, repo_context, <<1, 5>>, db)
             top == Take(similar_fixes, AveragedMatches)
             similarity_match ==
                 IF similar_fixes = <<>> THEN <<0, 1>>
                 ELSE RMul(SumScores(top), <<1, Len(top)>>)
             repo_success_rate == get_repo_success_rate(rows, repo_context, db)
             fix_complexity == RSub(<<1, 1>>, assess_fix_complexity(suggested_fix))
             error_reliability == get_error_type_reliability(error_log)
             time_context == <<4, 5>>
         IN [predicted_success_rate |->
                 RAdd(RMul(similarity_match, <<3, 10>>),
                 RAdd(RMul(repo_success_rate, <<1, 4>>),
                 RAdd(RMul(fix_complexity, <<1, 5>>),
                 RAdd(RMul(error_reliability, <<3, 20>>),
                      RMul(time_context, <<1, 10>>))))),
             confidence |->
                 RMin(<<1, 1>>,
                      RAdd(RMul(Fraction(Len(similar_fixes), 10), <<2, 5>>),
                      RAdd(RMul(IF repo_success_rate[1] > 0 THEN <<1, 1>> ELSE <<0, 1>>,
                                <<3, 10>>),
                           <<3, 10>>))),
             similar_fixes_found |-> Len(similar_fixes),
             error |-> FALSE]

\* the error logs of stored rows and of prediction requests
CorpusTexts ==
    {"npm ERR! peer dep missing: react@^18.0.0",
     "npm install failed: peer dependency conflict"}
QueryTexts ==
    {"npm ERR! peer dep missing: react@^18.0.0",
     "npm install failed: peer dep missing", "", NotAString}

\* row i of a table the predictions are computed over: a decided suggestion
CorpusRow(i, kind) ==
    [NewRow(IF kind[2] = RepoOf(2 * i) THEN 2 * i ELSE 2 * i - 1, kind[1])
        EXCEPT !.suggested_fix = FixText, !.analysis_result = "analysis",
               !.fix_status = kind[3]]

Corpora ==
    UNION {{[i \in 1..n |-> CorpusRow(i, f[i])] :
               f \in [1..n -> CorpusTexts \X RepoContexts \X {"approved", "rejected"}]} :
           n \in 0..MaxCorpus}

\* a table with more matching rows than find_similar_fixes returns: approved
\* suggestions for one error log in one repository
CrowdedCorpus ==
    [i \in 1..(TopMatches + 2) |->
        CorpusRow(i, <<"npm ERR! peer dep missing: react@^18.0.0", RepoOf(1), "approved">>)]

Queries ==
    [error_log : QueryTexts, suggested_fix : PredictedFixes,
     repo_context : RepoContexts \cup {""}, db : {"up", "down"}]

InitPredict ==
    /\ workflow_runs \in Corpora \cup {CrowdedCorpus}
    /\ HandlersInit
    /\ PatternStoreInit
    /\ query \in Queries
    /\ prediction = NoPrediction
    /\ MatcherIdle
    /\ ServerIdle

\* predictor.predict_fix_success(error_log, suggested_fix, repo_context)
predict ==
    /\ prediction.pc = "idle"
    /\ prediction' =
          [pc |-> "done",
           result |-> predict_fix_success(workflow_runs, query.error_log,
                                          query.suggested_fix, query.repo_context,
                                          query.db)]
    /\ UNCHANGED query
    /\ UNCHANGED <<lifecycle_vars, pattern_vars, matcher_vars, server_vars>>

\* the response has been sent
predict_return ==
    /\ prediction.pc = "done"
    /\ prediction' = NoPrediction
    /\ UNCHANGED query
    /\ UNCHANGED <<lifecycle_vars, pattern_vars, matcher_vars, server_vars>>

NextPredict ==
    \/ predict
    \/ predict_return

SpecPredict == InitPredict /\ [][NextPredict]_vars


\* ------------------------------------------------- the similar-fixes search
\* the thresholds a caller can send as min_similarity (0.3 when left out)
MinSimilarities == {<<0, 1>>, <<1, 5>>, <<3, 10>>, <<1, 2>>, <<1, 1>>, <<3, 2>>}

\* the statuses of the stored suggestions a search runs over
SearchStatuses == {"approved", "rejected", "applying"}

SearchCorpora ==
    UNION {{[i \in 1..n |-> CorpusRow(i, f[i])] :
               f \in [1..n -> CorpusTexts \X RepoContexts \X SearchStatuses]} :
           n \in 0..MaxCorpus}

\* a table with more matching rows than find_similar_fixes returns: approved
\* suggestions for both error logs, in both repositories
MixedCrowdedCorpus ==
    [i \in 1..(TopMatches + 2) |->
        CorpusRow(i, <<IF i % 2 = 0 THEN "npm ERR! peer dep missing: react@^18.0.0"
                                    ELSE "npm install failed: peer dependency conflict",
                       IF i % 3 = 0 THEN RepoOf(1) ELSE RepoOf(2),
                       "approved">>)]

SearchTexts ==
    {"npm ERR! peer dep missing: react@^18.0.0",
     "npm install failed: peer dep missing", ""}

Searches ==
    [error_log : SearchTexts, repo_context : {RepoOf(1), ""},
     min_similarity : MinSimilarities, db : {"up", "down"}]

InitSimilar ==
    /\ workflow_runs \in SearchCorpora \cup {CrowdedCorpus, MixedCrowdedCorpus}
    /\ HandlersInit
    /\ PatternStoreInit
    /\ PredictIdle
    /\ search \in Searches
    /\ matches = NoMatches
    /\ pair = NoPair
    /\ compared = NotCompared
    /\ ServerIdle

\* recognizer.find_similar_fixes(error_log, repo_context, min_similarity)
find_similar ==
    /\ matches.pc = "idle"
    /\ matches' =
          [pc |-> "done",
           result |-> find_similar_fixes(workflow_runs, search.error_log,
                                         search.repo_context, search.min_similarity,
                                         search.db)]
    /\ UNCHANGED <<search, pair, compared>>
    /\ UNCHANGED <<lifecycle_vars, pattern_vars, predict_vars, server_vars>>

\* the response has been sent
find_similar_return ==
    /\ matches.pc = "done"
    /\ matches' = NoMatches
    /\ UNCHANGED <<search, pair, compared>>
    /\ UNCHANGED <<lifecycle_vars, pattern_vars, predict_vars, server_vars>>

NextSimilar ==
    \/ find_similar
    \/ find_similar_return

SpecSimilar == InitSimilar /\ [][NextSimilar]_vars


\* -------------------------------------------------------------- the matcher
\* error logs given to the matcher: the logs of the tables above, and four
\* pairs of logs that differ in one absolute file path (without and with a
\* file extension), in one line number, in one date and time
MatcherTexts ==
    {"",
     "npm ERR! peer dep missing: react@^18.0.0",
     "Build timed out after 30 minutes",
     "npm install failed: peer dependency conflict",
     "npm install failed: peer dep missing",
     "Error: cannot execute binary /usr/local/bin/node",
     "Error: cannot execute binary /opt/tools/bin/node",
     "TypeError: cannot read config at /home/alice/app/src/main.py",
     "TypeError: cannot read config at /srv/build/main.py",
     "SyntaxError: unexpected token in module on line 12",
     "SyntaxError: unexpected token in module on line 345",
     "Error: connection refused by host at 2024-01-15 10:30:00",
     "Error: connection refused by host at 2025-06-02 23:59:59"}

InitMatcher ==
    /\ LifecycleInit
    /\ PatternStoreInit
    /\ PredictIdle
    /\ search = NoSearch
    /\ matches = NoMatches
    /\ pair \in MatcherTexts \X MatcherTexts
    /\ compared = NotCompared
    /\ ServerIdle

\* the signatures of two logs and their similarity, as the loop of
\* find_similar_fixes computes them: extract_error_signature of each log, then
\* calculate_similarity(sig1, sig2, log1, log2)
compare ==
    /\ compared.pc = "idle"
    /\ LET sig1 == extract_error_signature(pair[1])
           sig2 == extract_error_signature(pair[2])
       IN compared' =
            [pc |-> "done", sig1 |-> sig1, sig2 |-> sig2,
             similarity |-> calculate_similarity(sig1, sig2, pair[1], pair[2])]
    /\ UNCHANGED <<search, matches, pair>>
    /\ UNCHANGED <<lifecycle_vars, pattern_vars, predict_vars, server_vars>>

\* the next row of the loop
compare_next ==
    /\ compared.pc = "done"
    /\ compared' = NotCompared
    /\ UNCHANGED <<search, matches, pair>>
    /\ UNCHANGED <<lifecycle_vars, pattern_vars, predict_vars, server_vars>>

NextMatcher ==
    \/ compare
    \/ compare_next

SpecMatcher == InitMatcher /\ [][NextMatcher]_vars


\* ------------------------------------------------------------ the event loop
\* The server is one process with one event loop (uvicorn.run in main.py).  It
\* holds the requests it has received; the handler of a request has the loop
\* until it answers or reaches a suspension point, and only then another
\* handler is started or resumed.

\* variant: the handler gives up the loop between its check of the status and
\* its write of the new status
SuspensionPointsAfterCheck == {"checked"}

\* variant: the handler gives up the loop between the load of the patterns
\* and the update
SuspensionPointsAfterLoad == {"loaded"}

\* the positions at which a handler gives up the event loop before it has
\* answered: none.  db.get_fix, db.update_fix_status, the load and save of
\* the recognizer (psycopg2) and the GitHub calls (requests) are synchronous
\* calls, and the one await of the handlers, of apply_fix_to_repository(...),
\* is of a coroutine that never suspends
SuspensionPoints == {}

\* the handler of client c may take its next step
CanRun(c) ==
    \/ running = c
    \/ running = 0 /\ inflight[c].pc \in {"queued"} \cup SuspensionPoints

\* who has the loop after the handler of c moved to position pc
Yield(c, pc) == IF pc = "done" \/ pc \in SuspensionPoints THEN 0 ELSE c

\* what the lifecycle requests leave alone
other_lifecycle_vars == <<tasks, cur, decided, attempt, refused>>

\* a request on a fix has been received; its handler has not started
Received(op, id, raced) ==
    [op |-> op, id |-> id, pc |-> "queued", fix |-> NoRow, gh |-> "notcalled",
     code |-> 0, raced |-> raced]

\* the statuses from which the handler of op goes on
AllowedFor(op) == IF op = "apply" THEN ApplyAllowed ELSE ApproveAllowed

\* the server receives POST /fixes/{id}/approve, /reject or /apply of client c.
\* raced: a request for the same operation on the same fix is waiting in the
\* loop at that moment
receive(c, op, id) ==
    /\ inflight[c].pc = "none"
    /\ received < MaxRequests
    /\ LET same(d) ==
              /\ d # c /\ inflight[d].pc = "queued"
              /\ inflight[d].op = op /\ inflight[d].id = id
       IN inflight' =
            [d \in Clients |->
                IF d = c THEN Received(op, id, \E e \in Clients : same(e))
                ELSE IF same(d) THEN [inflight[d] EXCEPT !.raced = TRUE]
                ELSE inflight[d]]
    /\ received' = received + 1
    /\ UNCHANGED <<workflow_runs, running, applications>>
    /\ UNCHANGED <<other_lifecycle_vars, pattern_vars, predict_vars, matcher_vars>>

\* the handler starts: fix = db.get_fix(fix_id), 404 when there is none, 400
\* when its status does not allow the operation
run_check(c) ==
    /\ CanRun(c)
    /\ inflight[c].pc = "queued"
    /\ LET h == [inflight[c] EXCEPT !.fix = get_fix(inflight[c].id)]
           next ==
             IF h.id \notin RowIds THEN [h EXCEPT !.pc = "done", !.code = 404]
             ELSE IF h.fix.fix_status \notin AllowedFor(h.op)
             THEN [h EXCEPT !.pc = "done", !.code = 400]
             ELSE [h EXCEPT !.pc = "checked"]
       IN /\ inflight' = [inflight EXCEPT ![c] = next]
          /\ running' = Yield(c, next.pc)
    /\ UNCHANGED <<workflow_runs, applications, received>>
    /\ UNCHANGED <<other_lifecycle_vars, pattern_vars, predict_vars, matcher_vars>>

\* the handler writes: approve_fix stores 'approved', reject_fix stores
\* 'rejected' and answers, manually_apply_fix enters apply_fix_to_repository,
\* which stores 'applying'
run_decide(c) ==
    /\ CanRun(c)
    /\ inflight[c].pc = "checked"
    /\ LET h == inflight[c]
           next ==
             CASE h.op = "approve" -> [h EXCEPT !.pc = "approved"]
               [] h.op = "reject" -> [h EXCEPT !.pc = "done", !.code = 200]
               [] h.op = "apply" -> [h EXCEPT !.pc = "mutating"]
           status ==
             CASE h.op = "approve" -> "approved"
               [] h.op = "reject" -> "rejected"
               [] h.op = "apply" -> InProgressStatus
       IN /\ workflow_runs' = update_fix_status(workflow_runs, h.id, status)
          /\ inflight' = [inflight EXCEPT ![c] = next]
          /\ running' = Yield(c, next.pc)
    /\ UNCHANGED <<applications, received>>
    /\ UNCHANGED <<other_lifecycle_vars, pattern_vars, predict_vars, matcher_vars>>

\* approve_fix goes on into apply_fix_to_repository, which stores 'applying'
run_mark(c) ==
    /\ CanRun(c)
    /\ inflight[c].pc = "approved"
    /\ workflow_runs' = update_fix_status(workflow_runs, inflight[c].id, InProgressStatus)
    /\ inflight' = [inflight EXCEPT ![c].pc = "mutating"]
    /\ running' = Yield(c, "mutating")
    /\ UNCHANGED <<applications, received>>
    /\ UNCHANGED <<other_lifecycle_vars, pattern_vars, predict_vars, matcher_vars>>

\* the call of the repository-mutation collaborator
run_github(c, result) ==
    /\ CanRun(c)
    /\ inflight[c].pc = "mutating"
    /\ inflight' = [inflight EXCEPT ![c].pc = "settle", ![c].gh = result]
    /\ applications' = [applications EXCEPT ![inflight[c].id] = @ + 1]
    /\ running' = Yield(c, "settle")
    /\ UNCHANGED <<workflow_runs, received>>
    /\ UNCHANGED <<other_lifecycle_vars, pattern_vars, predict_vars, matcher_vars>>

\* the rest of apply_fix_to_repository and of its caller, up to the answer
run_settle(c) ==
    /\ CanRun(c)
    /\ inflight[c].pc = "settle"
    /\ LET h == inflight[c]
           outer == Settled(h.op, h.gh, workflow_runs, h.id)
       IN /\ workflow_runs' = outer.rows
          /\ inflight' = [inflight EXCEPT ![c].pc = "done",
                                          ![c].code = IF outer.raised THEN 500 ELSE 200]
    /\ running' = Yield(c, "done")
    /\ UNCHANGED <<applications, received>>
    /\ UNCHANGED <<other_lifecycle_vars, pattern_vars, predict_vars, matcher_vars>>

\* the client has got the response
answer(c) ==
    /\ inflight[c].pc = "done"
    /\ inflight' = [inflight EXCEPT ![c] = NoRequest]
    /\ UNCHANGED <<workflow_runs, learned_patterns, feedback, calls, running, applications, received>>
    /\ UNCHANGED <<other_lifecycle_vars, fb, predict_vars, matcher_vars>>

\* the table when the requests come in: every run has a suggestion, which
\* waits for a decision or was approved by a handler that was killed before
\* it stored 'applying'
InitRequests ==
    /\ \E status \in [1..MaxRuns -> {"pending", "approved"}] :
          workflow_runs =
            [i \in 1..MaxRuns |->
                [NewRow(i, "webhook") EXCEPT !.suggested_fix = FixText,
                                            !.analysis_result = "analysis",
                                            !.fix_status = status[i]]]
    /\ HandlersInit
    /\ PatternStoreInit
    /\ PredictIdle
    /\ MatcherIdle
    /\ ServerIdle

NextRequests ==
    \/ \E c \in Clients, op \in {"approve", "reject", "apply"}, id \in FixIds :
            receive(c, op, id)
    \/ \E c \in Clients : run_check(c)
    \/ \E c \in Clients : run_decide(c)
    \/ \E c \in Clients : run_mark(c)
    \/ \E c \in Clients, result \in GhResults : run_github(c, result)
    \/ \E c \in Clients : run_settle(c)
    \/ \E c \in Clients : answer(c)

SpecRequests == InitRequests /\ [][NextRequests]_vars


\* ---------------------------------------------- feedback under the event loop
\* the feedback the clients send: two texts with different signatures, one
\* fix text, one repository
FeedbackTexts ==
    {"Build timed out after 30 minutes",
     "npm install failed: peer dependency conflict"}
FeedbackFixes == {"npm install --legacy-peer-deps"}
FeedbackRepos == {RepoOf(1)}

\* a feedback request has been received; its handler has not started
ReceivedFeedback(error_log, suggested_fix, fix_status, repo_context, raced) ==
    [op |-> "feedback", id |-> extract_error_signature(error_log), pc |-> "queued",
     error_log |-> error_log, suggested_fix |-> suggested_fix,
     fix_status |-> fix_status, repo_context |-> repo_context,
     patterns |-> <<>>, code |-> 0, raced |-> raced]

\* the feedback requests the server has received and not yet handled
Unhandled == {c \in Clients : inflight[c].pc \in {"queued", "loaded"}}

\* the server receives POST /analytics/ml/learn-from-feedback of client c.
\* raced: a request with the same signature is waiting in the loop
receive_feedback(c, error_log, suggested_fix, fix_status, repo_context) ==
    /\ inflight[c].pc = "none"
    /\ calls + Cardinality(Unhandled) < MaxFeedback
    /\ LET same(d) ==
              /\ d # c /\ inflight[d].pc = "queued"
              /\ inflight[d].id = extract_error_signature(error_log)
       IN inflight' =
            [d \in Clients |->
                IF d = c
                THEN ReceivedFeedback(error_log, suggested_fix, fix_status,
                                      repo_context, \E e \in Clients : same(e))
                ELSE IF same(d) THEN [inflight[d] EXCEPT !.raced = TRUE]
                ELSE inflight[d]]
    /\ UNCHANGED <<learned_patterns, fb, feedback, calls, running, applications, received>>
    /\ UNCHANGED <<lifecycle_vars, predict_vars, matcher_vars>>

\* the handler starts: the checks of the fields, then
\* recognizer = MLPatternRecognizer(), whose constructor loads the patterns
run_load(c) ==
    /\ CanRun(c)
    /\ inflight[c].pc = "queued"
    /\ LET h == inflight[c]
           next ==
             IF \/ h.error_log = "" \/ h.suggested_fix = "" \/ h.fix_status = ""
                \/ h.fix_status \notin {"approved", "rejected", "pending"}
             THEN [h EXCEPT !.pc = "done", !.code = 500]
             ELSE [h EXCEPT !.pc = "loaded",
                            !.patterns = load_learned_patterns(learned_patterns)]
       IN /\ inflight' = [inflight EXCEPT ![c] = next]
          /\ running' = Yield(c, next.pc)
          /\ calls' = IF next.pc = "done" THEN calls + 1 ELSE calls
    /\ UNCHANGED <<learned_patterns, fb, feedback, applications, received>>
    /\ UNCHANGED <<lifecycle_vars, predict_vars, matcher_vars>>

\* recognizer.learn_from_feedback(...), save_learned_patterns included, and
\* the 200 response
run_learn(c) ==
    /\ CanRun(c)
    /\ inflight[c].pc = "loaded"
    /\ LET h == inflight[c]
           r == learn_from_feedback(h.patterns, h.error_log, h.suggested_fix,
                                    h.fix_status, h.repo_context)
       IN /\ inflight' = [inflight EXCEPT ![c].pc = "done", ![c].code = 200,
                                          ![c].patterns = r.patterns]
          /\ learned_patterns' =
                IF r.save THEN save_learned_patterns(r.patterns) ELSE learned_patterns
          /\ feedback' = [feedback EXCEPT ![h.id] = Counted(@, h.fix_status)]
    /\ running' = Yield(c, "done")
    /\ calls' = calls + 1
    /\ UNCHANGED <<fb, applications, received>>
    /\ UNCHANGED <<lifecycle_vars, predict_vars, matcher_vars>>

NextFeedbacks ==
    \/ \E c \in Clients, error_log \in FeedbackTexts,
          suggested_fix \in FeedbackFixes, fix_status \in FeedbackStatuses,
          repo_context \in FeedbackRepos :
            receive_feedback(c, error_log, suggested_fix, fix_status, repo_context)
    \/ \E c \in Clients : run_load(c)
    \/ \E c \in Clients : run_learn(c)
    \/ \E c \in Clients : answer(c)

SpecFeedbacks == Init /\ [][NextFeedbacks]_vars


\* ------------------------------------------- feedback with a failing database
\* what a statement of the recognizer finds: the database answers or the
\* connection (or the statement) fails
DbStates == {"up", "down"}

\* load_learned_patterns with its except clause: what fails leaves
\* self.learned_patterns = []
load_learned_patterns_db(table, db) ==
    IF db = "down" THEN <<>> ELSE load_learned_patterns(table)

\* save_learned_patterns with its except clause: DELETE and INSERT are one
\* transaction, what fails is logged and the table is as it was
save_learned_patterns_db(table, patterns, db) ==
    IF db = "down" THEN table ELSE save_learned_patterns(patterns)

\* POST /analytics/ml/learn-from-feedback up to recognizer = MLPatternRecognizer(),
\* whose load finds the database up or down
feedback_request_db(error_log, suggested_fix, fix_status, repo_context, db) ==
    /\ fb.pc = "idle"
    /\ calls < MaxFeedback
    /\ LET h == [FbIdle EXCEPT !.error_log = error_log, !.suggested_fix = suggested_fix,
                               !.fix_status = fix_status, !.repo_context = repo_context,
                               !.stored = learned_patterns]
       IN IF \/ error_log = "" \/ suggested_fix = "" \/ fix_status = ""
             \/ fix_status \notin {"approved", "rejected", "pending"}
          THEN fb' = [h EXCEPT !.pc = "done", !.code = 500]
          ELSE fb' = [h EXCEPT !.pc = "loaded",
                               !.loaded = load_learned_patterns_db(learned_patterns, db),
                               !.patterns = load_learned_patterns_db(learned_patterns, db)]
    /\ UNCHANGED <<learned_patterns, feedback, calls>>
    /\ UNCHANGED <<lifecycle_vars, predict_vars, matcher_vars, server_vars>>

\* recognizer.learn_from_feedback(...), whose save finds the database up or
\* down, and the 200 response
recognizer_learn_db(db) ==
    /\ fb.pc = "loaded"
    /\ LET r == learn_from_feedback(fb.patterns, fb.error_log, fb.suggested_fix,
                                    fb.fix_status, fb.repo_context)
           sig == extract_error_signature(fb.error_log)
       IN /\ fb' = [fb EXCEPT !.pc = "done", !.code = 200,
                              !.patterns = r.patterns, !.saved = r.save]
          /\ learned_patterns' =
                IF r.save THEN save_learned_patterns_db(learned_patterns, r.patterns, db)
                ELSE learned_patterns
          /\ feedback' = [feedback EXCEPT ![sig] = Counted(@, fb.fix_status)]
    /\ calls' = calls + 1
    /\ UNCHANGED <<lifecycle_vars, predict_vars, matcher_vars, server_vars>>

NextOutage ==
    \/ \E error_log \in FeedbackTexts \cup {""}, suggested_fix \in SuggestedFixes,
          fix_status \in FeedbackStatuses, repo_context \in FeedbackRepos,
          db \in DbStates :
            feedback_request_db(error_log, suggested_fix, fix_status, repo_context, db)
    \/ \E db \in DbStates : recognizer_learn_db(db)
    \/ feedback_return

SpecOutage == Init /\ [][NextOutage]_vars


\* ------------------------------------------------------------ properties
\* the row of the fix the running handler is about
CurRow == workflow_runs[cur.id]

\* C1: once the stored status of a suggestion is 'applied' or 'rejected', no
\* step changes it
TerminalStatesNeverExited ==
    [][\A i \in RowIds :
          (/\ workflow_runs[i].suggested_fix # NULL
           /\ workflow_runs[i].fix_status \in {"applied", "rejected"})
              => workflow_runs'[i].fix_status = workflow_runs[i].fix_status]_vars

\* C2: the repository-mutation collaborator is called (or about to be called)
\* for a fix only when approve_fix wrote 'approved' since the fix last was
\* 'pending', and never while the stored status is 'pending' or 'rejected'
ApprovalGate ==
    (cur.pc = "mutating" \/ cur.gh # "notcalled")
        => /\ decided[cur.id]
           /\ CurRow.fix_status \notin {"pending", "rejected"}

\* a manual apply of an approved fix has called the collaborator
ApprovalGateWitness ==
    cur.op = "apply" /\ cur.pc = "settle" /\ decided[cur.id]

\* C3: approve on a fix whose status is not 'pending' answers 400, leaves the row
\* as it was and does not call the collaborator
ApproveNeedsPending ==
    (cur.op = "approve" /\ cur.fix # NoRow /\ cur.fix.fix_status # "pending")
        => /\ cur.pc = "done"
           /\ cur.code = 400
           /\ CurRow = cur.fix
           /\ cur.gh = "notcalled"

\* approve was refused on a fix that is being applied
ApproveNeedsPendingWitness ==
    /\ cur.op = "approve" /\ cur.pc = "done" /\ cur.code = 400
    /\ cur.fix.fix_status = "applying"

\* C4: apply on a fix whose status is neither 'approved' nor 'application_failed'
\* answers 400, leaves the row as it was and does not call the collaborator
ApplyNeedsApproved ==
    (cur.op = "apply" /\ cur.fix # NoRow
       /\ cur.fix.fix_status \notin {"approved", "application_failed"})
        => /\ cur.pc = "done"
           /\ cur.code = 400
           /\ CurRow = cur.fix
           /\ cur.gh = "notcalled"

\* apply was refused on a rejected fix
ApplyNeedsApprovedWitness ==
    /\ cur.op = "apply" /\ cur.pc = "done" /\ cur.code = 400
    /\ cur.fix.fix_status = "rejected"

\* C5: approve and reject answer 404 and change nothing when there is no
\* suggestion for the id, also when the failure record exists without a fix
NoSuggestionNotFound ==
    (cur.op \in {"approve", "reject"} /\ cur.fix.suggested_fix = NULL)
        => /\ cur.pc = "done"
           /\ cur.code = 404
           /\ (cur.id \in RowIds => CurRow = cur.fix)

\* C6: every stored status is one of the six statuses of the lifecycle
StatusDomain ==
    \A i \in RowIds : workflow_runs[i].fix_status \in SixStatuses

\* approve_fix has been through its handler of a failed application, the one
\* place that names a seventh status
StatusDomainWitness ==
    /\ cur.op = "approve" /\ cur.pc = "done" /\ cur.code = 500
    /\ \E i \in RowIds : workflow_runs[i].fix_status = "applying"

\* C7: while the collaborator is being called, and after a crash during the
\* call, the stored status is 'applying'
InProgressPersisted ==
    (cur.pc = "mutating" \/ (cur.pc = "crashed" /\ cur.at = "mutating"))
        => CurRow.fix_status = "applying"

\* the process was killed during the call of the collaborator
InProgressPersistedWitness ==
    cur.pc = "crashed" /\ cur.at = "mutating" /\ CurRow.fix_status = "applying"

\* C8: after an attempt in which the collaborator created the pull request the
\* stored status is 'applied' and the pull request or branch is recorded
SuccessSettlesApplied ==
    (cur.pc = "done" /\ cur.fix.suggested_fix # NULL /\ cur.gh = "pr")
        => /\ CurRow.fix_status = "applied"
           /\ (CurRow.pr_url # NULL \/ CurRow.fix_branch # NULL)

\* C9: after an attempt in which the collaborator failed the stored status is
\* 'application_failed', an error message is recorded and the caller gets no error
FailureSettlesFailed ==
    (cur.pc = "done" /\ cur.fix.suggested_fix # NULL /\ cur.gh = "failed")
        => /\ CurRow.fix_status = "application_failed"
           /\ CurRow.fix_error # NULL
           /\ cur.code = 200

\* C10: a fix whose application attempt failed waits in 'application_failed'
\* for an explicit apply call, and that call is accepted (re-enters 'applying')
FailedAttemptRetryable ==
    (/\ cur.op = "apply" /\ cur.pc = "done"
     /\ cur.fix.suggested_fix # NULL /\ cur.att = "failed")
        => /\ cur.fix.fix_status = "application_failed"
           /\ cur.code # 400

\* C11: when the handler of an application attempt has finished (the
\* collaborator call returned or raised and the response is out), the stored
\* status is 'applied' or 'application_failed', not 'applying'
AttemptSettles ==
    (cur.pc = "done" /\ cur.fix.suggested_fix # NULL /\ cur.gh # "notcalled")
        => CurRow.fix_status \in {"applied", "application_failed"}

\* C12: reject_fix on a pending suggestion stores 'rejected' and touches
\* nothing else, and the repository-mutation collaborator is never called for
\* a suggestion that was rejected, neither in that call nor later
RejectedNeverApplied ==
    /\ (cur.op = "reject" /\ cur.pc = "done" /\ cur.code = 200)
          => /\ CurRow = [cur.fix EXCEPT !.fix_status = "rejected"]
             /\ cur.gh = "notcalled"
    /\ \A i \in RowIds :
          refused[i] => ~(cur.id = i /\ (cur.pc = "mutating" \/ cur.gh # "notcalled"))

\* C13: every approve or reject decision that was stored is forwarded to the
\* PatternStore.  Once the handler has answered and no task is left, nothing
\* of the program remains to run, so by then learn_from_feedback must have
\* been called at least once
DecisionsForwarded ==
    \A i \in RowIds :
        (/\ cur.pc = "idle"
         /\ \A j \in RowIds : tasks[j] = 0
         /\ workflow_runs[i].suggested_fix # NULL
         /\ decided[i] \/ refused[i])
            => calls > 0

\* the patterns a recognizer constructed now would hold
StoredPatterns == load_learned_patterns(learned_patterns)

\* the signature of the feedback request being handled
FbSignature == extract_error_signature(fb.error_log)

\* the handler has called recognizer.learn_from_feedback and answered 200
FbLearned == fb.pc = "done" /\ fb.code = 200

\* C14: for the approved/rejected events on one signature, counted from the
\* first approved one, the pattern's usage count is the number of events and
\* its success rate is approved events / usage count (1 after approvals only,
\* 1/2 with usage count 2 after an approval and a rejection)
OnlineMean ==
    /\ \A k \in DOMAIN StoredPatterns :
          LET p == StoredPatterns[k]
              c == feedback[p.error_signature]
          IN /\ p.usage_count = c.total
             /\ p.success_rate[1] * c.total = c.approved * p.success_rate[2]
             /\ (c.approved = c.total => p.success_rate = <<1, 1>>)
    /\ \A sig \in Signatures :
          feedback[sig].total > 0 =>
              \E k \in DOMAIN StoredPatterns : StoredPatterns[k].error_signature = sig

OnlineMeanWitness ==
    \E k \in DOMAIN StoredPatterns :
        /\ StoredPatterns[k].usage_count = 2
        /\ StoredPatterns[k].success_rate = <<1, 2>>
        /\ feedback[StoredPatterns[k].error_signature] = [approved |-> 1, total |-> 2]

\* C15: a signature never seen gets a pattern only from an approved event, and
\* that pattern has usage count 1, success rate 1 and the fix text as template;
\* a rejected event on a signature never seen leaves the set as it was
PatternCreationRule ==
    (FbLearned /\ ExistingPattern(fb.loaded, FbSignature) = 0) =>
        /\ fb.fix_status = "approved" =>
              /\ fb.patterns =
                    Append(fb.loaded,
                           [error_signature |-> FbSignature,
                            fix_template |-> fb.suggested_fix,
                            success_rate |-> <<1, 1>>, usage_count |-> 1,
                            repo_contexts |-> {fb.repo_context}])
              /\ StoredPatterns = fb.patterns
        /\ fb.fix_status # "approved" =>
              /\ fb.patterns = fb.loaded
              /\ StoredPatterns = load_learned_patterns(fb.stored)

PatternCreationRuleWitness ==
    /\ FbLearned
    /\ fb.fix_status = "rejected"
    /\ fb.loaded # <<>>
    /\ ExistingPattern(fb.loaded, FbSignature) = 0

\* C16: a feedback event with outcome 'pending' changes neither the patterns
\* in memory nor the stored ones, and nothing is saved
PendingIgnored ==
    (FbLearned /\ fb.fix_status = "pending") =>
        /\ fb.patterns = fb.loaded
        /\ learned_patterns = fb.stored
        /\ ~fb.saved

PendingIgnoredWitness ==
    /\ FbLearned
    /\ fb.fix_status = "pending"
    /\ ExistingPattern(fb.loaded, FbSignature) # 0

\* C17: no two stored patterns have the same signature, and after two approved
\* events on one signature the store holds one pattern for it, with usage
\* count 2 and success rate 1
OnePatternPerSignature ==
    /\ \A j, k \in DOMAIN StoredPatterns :
          StoredPatterns[j].error_signature = StoredPatterns[k].error_signature => j = k
    /\ \A sig \in Signatures :
          feedback[sig] = [approved |-> 2, total |-> 2] =>
              /\ Cardinality({k \in DOMAIN StoredPatterns :
                                 StoredPatterns[k].error_signature = sig}) = 1
              /\ \A k \in DOMAIN StoredPatterns :
                    StoredPatterns[k].error_signature = sig =>
                        /\ StoredPatterns[k].usage_count = 2
                        /\ StoredPatterns[k].success_rate = <<1, 1>>

\* the second of two approved calls with the same error text, repository
\* context and fix text has been handled
OnePatternPerSignatureWitness ==
    /\ FbLearned
    /\ fb.fix_status = "approved"
    /\ fb.error_log = "npm ERR! peer dep missing: react@^18.0.0"
    /\ fb.loaded = <<NewPattern(FbSignature, fb.suggested_fix, fb.repo_context)>>
    /\ feedback[FbSignature] = [approved |-> 2, total |-> 2]

InUnitInterval(x) == x[2] > 0 /\ 0 <= x[1] /\ x[1] <= x[2]

\* C19: whatever the error text, the fix text, the repository context and the
\* stored rows are, predict returns a probability and a confidence in [0, 1]
PredictionInRange ==
    prediction.pc = "done" =>
        /\ InUnitInterval(prediction.result.predicted_success_rate)
        /\ InUnitInterval(prediction.result.confidence)

\* a computed prediction (not the fallback) at the upper end of the confidence:
\* as many matches as find_similar_fixes returns, in a repository with history
PredictionInRangeWitness ==
    /\ prediction.pc = "done"
    /\ ~prediction.result.error
    /\ prediction.result.similar_fixes_found = TopMatches
    /\ prediction.result.confidence = <<1, 1>>

\* C20: predict does not raise, and when a step of the prediction failed (the
\* database is unavailable, or the error log is not a string) it returns the
\* fallback: probability 0.5 and confidence 0.1
FailureGivesFallback ==
    (prediction.pc = "done" /\ (query.db = "down" \/ query.error_log = NotAString)) =>
        /\ prediction.result.predicted_success_rate = <<1, 2>>
        /\ prediction.result.confidence = <<1, 10>>

\* the similar-fixes search has returned
Searched == matches.pc = "done"

\* C21: find_similar_fixes returns at most 10 matches, in order of
\* non-increasing score, and every score is in [min_similarity, 1.0] when
\* min_similarity <= 1.0
RankedMatches ==
    Searched =>
        /\ Len(matches.result) <= 10
        /\ \A k \in 1..(Len(matches.result) - 1) :
              RLeq(matches.result[k + 1].similarity_score,
                   matches.result[k].similarity_score)
        /\ RLeq(search.min_similarity, <<1, 1>>) =>
              \A k \in DOMAIN matches.result :
                  /\ RLeq(search.min_similarity, matches.result[k].similarity_score)
                  /\ RLeq(matches.result[k].similarity_score, <<1, 1>>)

\* ten matches came back out of twelve candidates, with more than one score
RankedMatchesWitness ==
    /\ Searched
    /\ Len(workflow_runs) = TopMatches + 2
    /\ Len(matches.result) = 10
    /\ matches.result[1].similarity_score # matches.result[10].similarity_score

\* C22: when no stored suggestion is approved, find_similar_fixes returns the
\* empty list, whatever the error text, repository context and min_similarity
EmptyCorpusNoMatches ==
    (Searched /\ \A i \in RowIds : workflow_runs[i].fix_status # "approved")
        => matches.result = <<>>

\* a search with threshold 0 over a table that holds the very error text, in
\* the very repository, but no approved suggestion
EmptyCorpusNoMatchesWitness ==
    /\ Searched
    /\ search.db = "up"
    /\ search.min_similarity = <<0, 1>>
    /\ workflow_runs # <<>>
    /\ \A i \in RowIds :
          /\ workflow_runs[i].fix_status # "approved"
          /\ workflow_runs[i].error_log = search.error_log
          /\ workflow_runs[i].repo = search.repo_context
    /\ matches.result = <<>>

\* the matcher has compared the two logs
Compared == compared.pc = "done"

\* C23: the similarity of two logs with the same signature is 1.0, whatever
\* the logs are
SameSignatureIsIdentical ==
    (Compared /\ compared.sig1 = compared.sig2) => compared.similarity = <<1, 1>>

\* two logs with different words and one signature
SameSignatureIsIdenticalWitness ==
    /\ Compared
    /\ compared.sig1 = compared.sig2
    /\ compared.sig1 # ""
    /\ Words(pair[1]) # Words(pair[2])
    /\ Words(pair[1]) \cap Words(pair[2]) # {}

\* C24: the similarity of two logs that have no word in common is 0.0, also
\* when the extractor finds no fragment in either of them, and for two empty
\* logs
DisjointGivesZero ==
    (Compared /\ Words(pair[1]) \cap Words(pair[2]) = {})
        => compared.similarity = <<0, 1>>

\* pairs of logs that differ only in an absolute file path, in a line number
\* or in a date and time
NoiseVariants ==
    LET oneway ==
          {<<"Error: cannot execute binary /usr/local/bin/node",
             "Error: cannot execute binary /opt/tools/bin/node">>,
           <<"TypeError: cannot read config at /home/alice/app/src/main.py",
             "TypeError: cannot read config at /srv/build/main.py">>,
           <<"SyntaxError: unexpected token in module on line 12",
             "SyntaxError: unexpected token in module on line 345">>,
           <<"Error: connection refused by host at 2024-01-15 10:30:00",
             "Error: connection refused by host at 2025-06-02 23:59:59">>}
    IN oneway \cup {<<p[2], p[1]>> : p \in oneway}

\* C25: a log always gets the same signature, and two logs that differ only
\* in absolute file paths, line numbers or date/time tokens get equal
\* signatures
NoiseInvariantSignature ==
    (Compared /\ (pair[1] = pair[2] \/ pair \in NoiseVariants))
        => compared.sig1 = compared.sig2


\* the approve handlers of client c for fix i that got past the status check
Passed(c, i) ==
    /\ inflight[c].op = "approve"
    /\ inflight[c].id = i
    /\ \/ inflight[c].pc \in {"checked", "approved", "mutating", "settle"}
       \/ inflight[c].pc = "done" /\ inflight[c].code \notin {400, 404}

\* two approve requests for the same fix were waiting in the loop together,
\* one of them found the fix pending, and both have been handled
ApprovedTogether(c, d, i) ==
    /\ c # d
    /\ inflight[c].pc = "done" /\ inflight[d].pc = "done"
    /\ inflight[c].op = "approve" /\ inflight[d].op = "approve"
    /\ inflight[c].id = i /\ inflight[d].id = i
    /\ inflight[c].raced /\ inflight[d].raced
    /\ inflight[c].fix.fix_status = "pending"

StoredUsage(sig) ==
    LET i == ExistingPattern(StoredPatterns, sig)
    IN IF i = 0 THEN 0 ELSE StoredPatterns[i].usage_count

\* two feedback requests with the same signature were waiting in the loop
\* together, the first an approval, and both have been learned
FedTogether(c, d) ==
    /\ c # d
    /\ inflight[c].pc = "done" /\ inflight[d].pc = "done"
    /\ inflight[c].op = "feedback" /\ inflight[d].op = "feedback"
    /\ inflight[c].code = 200 /\ inflight[d].code = 200
    /\ inflight[c].id = inflight[d].id
    /\ inflight[c].raced /\ inflight[d].raced
    /\ inflight[c].fix_status = "approved"
    /\ inflight[d].fix_status \in LearnedStatuses

ApproveAnswered ==
    /\ cur.op = "approve"
    /\ cur.pc = "done"
    /\ cur.id \in RowIds
    /\ cur.fix.fix_status \in ApproveAllowed

AfterApprovedStatuses == {"applying", "applied", "application_failed"}

\* the rows find_similar_fixes searches
SearchedCorpus ==
    LET corpus == ApprovedDesc(workflow_runs, Len(workflow_runs))
    IN {corpus[k] : k \in DOMAIN corpus}

\* C29: a suggestion a human approved keeps counting as an approved fix when
\* its status has moved on to applying, applied or application_failed: its
\* row is in the corpus find_similar_fixes searches, and it counts as
\* approved in the approval rate of its repository (a table holding this row
\* alone has the rate 1).
ApprovedKeepsCounting ==
    \A i \in RowIds :
        (/\ decided[i]
         /\ workflow_runs[i].suggested_fix # NULL
         /\ workflow_runs[i].fix_status \in AfterApprovedStatuses)
            => /\ workflow_runs[i] \in SearchedCorpus
               /\ get_repo_success_rate(<<workflow_runs[i]>>,
                                         workflow_runs[i].repo, "up") = <<1, 1>>


\* the task analyze_failure_async of record i runs in this step
AnalysisTaskRuns(i) ==
    /\ cur.pc = "idle"
    /\ cur' = cur
    /\ tasks'[i] < tasks[i]

\* C30: when the analysis task of a failure record has run, an outcome is on
\* the record: a failed analysis stores no suggestion and leaves a terminal
\* "no suggestion generated" outcome (an analysis result or a status other
\* than pending), so the record does not look like one still to be analysed.
AnalysisFailureRecorded ==
    [][\A i \in RowIds :
          AnalysisTaskRuns(i) =>
              \/ workflow_runs'[i].analysis_result # NULL
              \/ workflow_runs'[i].fix_status # "pending"]_vars


\* C31: a feedback call that answers that the feedback was learned has its
\* mutation in durable storage: the stored patterns are the patterns the
\* recognizer held when it answered (a failed save is answered otherwise).
LearnedMeansStored ==
    (FbLearned /\ fb.saved) => StoredPatterns = fb.patterns

\* the pattern of the list for a signature, as a set (empty when there is none)
PatternsOf(patterns, sig) ==
    {patterns[k] : k \in {j \in DOMAIN patterns : patterns[j].error_signature = sig}}

\* every pattern of before is in after with its signature and fix template,
\* and unchanged when its signature is not sig
OnlyAddedOrUpdated(before, after, sig) ==
    \A k \in DOMAIN before :
        \E j \in DOMAIN after :
            /\ after[j].error_signature = before[k].error_signature
            /\ after[j].fix_template = before[k].fix_template
            /\ before[k].error_signature # sig => after[j] = before[k]

\* C32: a feedback event for signature s removes no pattern, changes no fix
\* template and leaves the patterns of the other signatures as they were, in
\* the list of the recognizer and in the table, also when the load failed.
PatternsOnlyAdded ==
    (fb.pc = "done" /\ fb.code = 200) =>
        /\ OnlyAddedOrUpdated(fb.loaded, fb.patterns, FbSignature)
        /\ OnlyAddedOrUpdated(load_learned_patterns(fb.stored), StoredPatterns,
                              FbSignature)


\* the rows the search runs over: the approved suggestions with an error log
SearchCandidates ==
    {i \in RowIds : /\ workflow_runs[i].suggested_fix # NULL
                    /\ workflow_runs[i].fix_status = "approved"
                    /\ workflow_runs[i].error_log # NULL}

\* the similarity of the searched text and the text of row i, and the score
\* with the bonus of 0.2 for a row of the repository asked about
RawSimilarity(i) ==
    calculate_similarity(extract_error_signature(search.error_log),
                         extract_error_signature(workflow_runs[i].error_log),
                         search.error_log, workflow_runs[i].error_log)
FinalScore(i) ==
    RMin(<<1, 1>>,
         RAdd(RawSimilarity(i),
              IF workflow_runs[i].repo = search.repo_context THEN <<1, 5>> ELSE <<0, 1>>))

\* row i is among the matches, with its final score
Returned(i) ==
    \E k \in DOMAIN matches.result :
        /\ matches.result[k].error_pattern = workflow_runs[i].error_log
        /\ matches.result[k].repository = workflow_runs[i].repo
        /\ matches.result[k].historical_fix = workflow_runs[i].suggested_fix
        /\ matches.result[k].similarity_score = FinalScore(i)

\* the smaller of two numbers
Smaller(a, b) == IF a < b THEN a ELSE b

\* C33 as stated: the threshold is applied to the final score: the matches
\* are the candidates whose score with the bonus reaches min_similarity (the
\* first 10 of them), and with at most 10 candidates a candidate is returned
\* exactly when its final score reaches min_similarity.
FilterOnFinalScore ==
    (Searched /\ search.db = "up") =>
        /\ Len(matches.result) =
              Smaller(TopMatches,
                      Cardinality({i \in SearchCandidates :
                                      RLeq(search.min_similarity, FinalScore(i))}))
        /\ Cardinality(SearchCandidates) <= TopMatches =>
              \A i \in SearchCandidates :
                  Returned(i) <=> RLeq(search.min_similarity, FinalScore(i))

\* C33, amended: the threshold is applied to the similarity before the bonus
\* is added: the matches are the candidates whose similarity reaches
\* min_similarity (the first 10 of them by final score), and with at most 10
\* candidates a candidate is returned exactly when its similarity without
\* the bonus reaches min_similarity; the score returned is the one with the
\* bonus.
FilterOnSimilarity ==
    (Searched /\ search.db = "up") =>
        /\ Len(matches.result) =
              Smaller(TopMatches,
                      Cardinality({i \in SearchCandidates :
                                      RLeq(search.min_similarity, RawSimilarity(i))}))
        /\ Cardinality(SearchCandidates) <= TopMatches =>
              \A i \in SearchCandidates :
                  Returned(i) <=> RLeq(search.min_similarity, RawSimilarity(i))

\* a candidate of the repository asked about whose similarity is below the
\* threshold and whose score with the bonus reaches it: it is not returned
FilterOnSimilarityWitness ==
    /\ Searched /\ search.db = "up"
    /\ search.error_log # ""
    /\ \E i \in SearchCandidates :
          /\ workflow_runs[i].repo = search.repo_context
          /\ ~RLeq(search.min_similarity, RawSimilarity(i))
          /\ RLeq(search.min_similarity, FinalScore(i))
          /\ ~Returned(i)


\* a prediction has been computed over a reachable database
Predicted ==
    /\ prediction.pc = "done"
    /\ query.db = "up"
    /\ query.error_log # NotAString

\* the decided suggestions of the repository asked about
RepoHistory ==
    {i \in RowIds : /\ workflow_runs[i].repo = query.repo_context
                    /\ workflow_runs[i].suggested_fix # NULL
                    /\ workflow_runs[i].fix_status \in {"approved", "rejected"}}

\* min(1.0, 0.4 * (n / 10) + 0.3 * h + 0.3)
ConfidenceOf(n, h) ==
    RMin(<<1, 1>>,
         RAdd(RMul(Fraction(n, 10), <<2, 5>>),
              RAdd(RMul(<<h, 1>>, <<3, 10>>), <<3, 10>>)))

\* C34: the confidence is min(1.0, 0.4 * (matchCount / 10) + 0.3 * h + 0.3),
\* matchCount the number of matches of find_similar_fixes at threshold 0.2,
\* h = 1 exactly when the repository has an approved or rejected fix on
\* record and 0 when it has none.
ConfidenceByHistory ==
    Predicted =>
        prediction.result.confidence =
            ConfidenceOf(Len(find_similar_fixes(workflow_runs, query.error_log,
                                                query.repo_context, <<1, 5>>, "up")),
                         IF RepoHistory # {} THEN 1 ELSE 0)


\* the factors of a prediction, from the request and the table
SimilarityMatchFactor ==
    LET m == find_similar_fixes(workflow_runs, query.error_log, query.repo_context,
                                <<1, 5>>, "up")
        top == SubSeq(m, 1, Smaller(5, Len(m)))
    IN IF m = <<>> THEN <<0, 1>> ELSE RMul(SumScores(top), <<1, Len(top)>>)
RepoHistoryFactor ==
    IF RepoHistory = {} THEN <<1, 2>>
    ELSE Fraction(Cardinality({i \in RepoHistory :
                                  workflow_runs[i].fix_status = "approved"}),
                  Cardinality(RepoHistory))
FixComplexityFactor == RSub(<<1, 1>>, assess_fix_complexity(query.suggested_fix))
ErrorTypeFactor == get_error_type_reliability(query.error_log)
TimeContextFactor == <<4, 5>>

\* C35: the probability is 0.30 * similarity_match + 0.25 * repo_history +
\* 0.20 * fix_complexity + 0.15 * error_type_reliability + 0.10 * time_context;
\* the weights sum to 1, every factor is in [0, 1], similarity_match is the
\* mean score of the top 5 matches at threshold 0.2 (0 without a match),
\* repo_history is 0.5 for a repository without approved/rejected history,
\* time_context is 0.8.
ProbabilityIsWeightedSum ==
    Predicted =>
        /\ RAdd(<<3, 10>>, RAdd(<<1, 4>>, RAdd(<<1, 5>>, RAdd(<<3, 20>>, <<1, 10>>))))
              = <<1, 1>>
        /\ \A f \in {SimilarityMatchFactor, RepoHistoryFactor, FixComplexityFactor,
                      ErrorTypeFactor, TimeContextFactor} : InUnitInterval(f)
        /\ prediction.result.predicted_success_rate =
              RAdd(RMul(<<3, 10>>, SimilarityMatchFactor),
              RAdd(RMul(<<1, 4>>, RepoHistoryFactor),
              RAdd(RMul(<<1, 5>>, FixComplexityFactor),
              RAdd(RMul(<<3, 20>>, ErrorTypeFactor),
                   RMul(<<1, 10>>, TimeContextFactor)))))

\* a prediction for a repository without history over a table with matches
\* in another repository
ProbabilityIsWeightedSumWitness ==
    /\ Predicted
    /\ RepoHistory = {}
    /\ query.repo_context # ""
    /\ prediction.result.similar_fixes_found > 0
    /\ query.suggested_fix # ""


\* C36: every suggestion is created in status pending: a step that gives a
\* suggested fix to a record that had none leaves the record pending, and a
\* record is never created with a suggestion.
CreatedPending ==
    [][\A i \in DOMAIN workflow_runs' :
          (/\ workflow_runs'[i].suggested_fix # NULL
           /\ i \in RowIds => workflow_runs[i].suggested_fix = NULL)
              => workflow_runs'[i].fix_status = "pending"]_vars

\* the analysis task has given a suggestion to a record: the record is
\* pending and nobody has decided on it
CreatedPendingWitness ==
    \E i \in RowIds :
        /\ cur.pc = "idle"
        /\ refused[i] = FALSE
        /\ workflow_runs[i].suggested_fix # NULL
        /\ workflow_runs[i].fix_status = "pending"
        /\ workflow_runs[i].analysis_result # NULL


\* C37: there is at most one failure record per (owner, repository, run id):
\* no two records are of the same run, a step removes no record and changes
\* the run of none, and a delivery of a run that has a record schedules the
\* analysis for that record and adds none.
OneRecordPerRun ==
    [][/\ \A i, j \in DOMAIN workflow_runs' :
             workflow_runs'[i].run = workflow_runs'[j].run => i = j
       /\ \A i \in RowIds :
             /\ i \in DOMAIN workflow_runs'
             /\ workflow_runs'[i].run = workflow_runs[i].run
       /\ \A i \in RowIds :
             tasks'[i] > tasks[i] => Len(workflow_runs') = Len(workflow_runs)]_vars

\* the failure of a record that has a suggestion has been delivered again:
\* the table holds a record for every run, one each, and the analysis of
\* the record is scheduled
OneRecordPerRunWitness ==
    /\ Len(workflow_runs) = MaxRuns
    /\ \E i \in RowIds :
          /\ workflow_runs[i].suggested_fix # NULL
          /\ workflow_runs[i].error_log = "manual"
          /\ tasks[i] > 0

====
